---- MODULE Spec2Model ----
(* A model of AssetsPackager.py: main() reads the scene descriptors, splits    *)
(* the asset paths into the shared list and the per-scene lists, packs one    *)
(* bin per non-empty list with pack_bin() and writes the index assets.idx.    *)
(* Files are sequences of bytes (0..255), serialised as struct.pack does.     *)
EXTENDS Integers, Sequences, FiniteSets, TLC

\* ------------------------------------------------------------------ bounds
\* The total number of asset lines read over all scene descriptors of a run.
MaxTotal == 4

\* ------------------------------------------------------------- environment
\* Scene names found by collect_ntfg_files (a dict: the names are distinct).
SceneNames == {"A", "B", "shared"}

\* Asset lines a descriptor can hold. "./x" names the same file as "x";
\* "q" names no file of the asset root.
Paths == {"x", "./x", "yy", "q"}

\* os.path.relpath(os.path.join(asset_root, asset), asset_root).replace("\\", "/")
LogicalPath(asset) == IF asset = "./x" THEN "x" ELSE asset

\* The files of the asset root, by logical path, with their bytes.
AssetFiles == {"x", "yy"}

FileData(path) == IF path = "x" THEN <<7, 8>> ELSE <<9>>

\* str.encode("utf-8") of the logical paths.
Utf8(path) ==
  CASE path = "x"   -> <<120>>
    [] path = "yy"  -> <<121, 121>>
    [] path = "q"   -> <<113>>
    [] OTHER        -> <<46, 47, 120>>

MAGIC == <<65, 83, 80, 75>>

VERSION == 1

\* ---------------------------------------------------------------- helpers
Min(a, b) == IF a < b THEN a ELSE b

Max(a, b) == IF a > b THEN a ELSE b

\* struct.pack("<I", n) (w = 4) and struct.pack("<Q", n) (w = 8): the w
\* bytes of n, least significant first.
RECURSIVE LE(_, _)
LE(n, w) == IF w = 0 THEN <<>> ELSE <<n % 256>> \o LE(n \div 256, w - 1)

RECURSIVE Flatten(_)
Flatten(ss) == IF ss = <<>> THEN <<>> ELSE Head(ss) \o Flatten(Tail(ss))

RECURSIVE SumSeq(_)
SumSeq(s) == IF s = <<>> THEN 0 ELSE Head(s) + SumSeq(Tail(s))

Lists(n) == UNION {[1..m -> Paths] : m \in 0..n}

Range(s) == {s[i] : i \in 1..Len(s)}

\* ------------------------------------------------------------------ state
VARIABLES pc, scenes, scene_assets, usage, total, shared_assets, scene_only,
          asset_index, bin_ids, next_bin_id, out_dir, k, bins, reported

vars == <<pc, scenes, scene_assets, usage, total, shared_assets, scene_only,
          asset_index, bin_ids, next_bin_id, out_dir, k, bins, reported>>

\* ------------------------------------------------------- the usage analysis
\* usage[a].add(scene): usage is a dict in insertion order, here a sequence of
\* [asset, scenes] records in order of first appearance.
UsageAdd(u, a, scene) ==
  IF \E i \in 1..Len(u) : u[i].asset = a
  THEN [i \in 1..Len(u) |->
          IF u[i].asset = a
          THEN [u[i] EXCEPT !.scenes = @ \cup {scene}]
          ELSE u[i]]
  ELSE Append(u, [asset |-> a, scenes |-> {scene}])

RECURSIVE UsageAddAll(_, _, _)
UsageAddAll(u, assets, scene) ==
  IF assets = <<>> THEN u
  ELSE UsageAddAll(UsageAdd(u, Head(assets), scene), Tail(assets), scene)

\* A shared list that counts a single using scene as sharing.
RECURSIVE SharedOfAnyUse(_)
SharedOfAnyUse(u) ==
  IF u = <<>> THEN <<>>
  ELSE (IF Cardinality(Head(u).scenes) > 0 THEN <<Head(u).asset>> ELSE <<>>)
       \o SharedOfAnyUse(Tail(u))

\* [a for a, s in usage.items() if len(s) > 1]
RECURSIVE SharedOf(_)
SharedOf(u) ==
  IF u = <<>> THEN <<>>
  ELSE (IF Cardinality(Head(u).scenes) > 1 THEN <<Head(u).asset>> ELSE <<>>)
       \o SharedOf(Tail(u))

\* A filter that builds the list back to front.
RECURSIVE SceneOnlyOfReversed(_, _)
SceneOnlyOfReversed(assets, shared) ==
  IF assets = <<>> THEN <<>>
  ELSE SceneOnlyOfReversed(Tail(assets), shared)
       \o (IF Head(assets) \in Range(shared) THEN <<>> ELSE <<Head(assets)>>)

\* [a for a in assets if a not in shared_assets]
RECURSIVE SceneOnlyOf(_, _)
SceneOnlyOf(assets, shared) ==
  IF assets = <<>> THEN <<>>
  ELSE (IF Head(assets) \in Range(shared) THEN <<>> ELSE <<Head(assets)>>)
       \o SceneOnlyOf(Tail(assets), shared)

\* ---------------------------------------------------------------- pack_bin
\* open(full_path, "rb") succeeds for every asset of the list.
Readable(assets) == \A i \in 1..Len(assets) : LogicalPath(assets[i]) \in AssetFiles

\* The entry appended in the first loop: the offset is a placeholder.
NewEntry(asset) ==
  [name   |-> Utf8(LogicalPath(asset)),
   asset  |-> LogicalPath(asset),
   offset |-> 0,
   size   |-> Len(FileData(LogicalPath(asset)))]

HeaderSize == 4 + 4 + 4

\* name length + name + offset + size
EntrySize(e) == 4 + Len(e.name) + 8 + 8

EntryTableSize(entries) ==
  SumSeq([i \in 1..Len(entries) |-> EntrySize(entries[i])])

\* A data start that leaves the header out.
DataStartOffsetNoHeader(entries) == EntryTableSize(entries)

DataStartOffset(entries) == HeaderSize + EntryTableSize(entries)

\* A running offset advanced before the entry takes it.
RunningOffsetInclusive(entries, i) == SumSeq([j \in 1..i |-> entries[j].size])

\* running_offset when entry i is reached.
RunningOffset(entries, i) == SumSeq([j \in 1..(i - 1) |-> entries[j].size])

\* e["offset"] = data_start_offset + running_offset
EntryOffset(entries, i) == DataStartOffset(entries) + RunningOffset(entries, i)

PackEntries(assets) ==
  LET raw == [i \in 1..Len(assets) |-> NewEntry(assets[i])]
  IN  [i \in 1..Len(raw) |-> [raw[i] EXCEPT !.offset = EntryOffset(raw, i)]]

\* data_blob: the bytes of the assets in list order.
DataBlob(assets) ==
  Flatten([i \in 1..Len(assets) |-> FileData(LogicalPath(assets[i]))])

\* An entry whose offset is packed with "<I".
EntryBytesShortOffset(e) ==
  LE(Len(e.name), 4) \o e.name \o LE(e.offset, 4) \o LE(e.size, 8)

EntryBytes(e) == LE(Len(e.name), 4) \o e.name \o LE(e.offset, 8) \o LE(e.size, 8)

\* The bytes written to out_path.
BinBytes(assets) ==
  LET entries == PackEntries(assets)
  IN  MAGIC \o LE(VERSION, 4) \o LE(Len(entries), 4)
      \o Flatten([i \in 1..Len(entries) |-> EntryBytes(entries[i])])
      \o DataBlob(assets)

\* ------------------------------------------------------------------ index
\* (e["asset"], bin_ids[bin_name], e["offset"], e["size"])
IndexRecords(entries, id) ==
  [i \in 1..Len(entries) |->
     [asset |-> entries[i].asset, bin_id |-> id,
      offset |-> entries[i].offset, size |-> entries[i].size]]

RecordBytes(r) ==
  LE(Len(Utf8(r.asset)), 4) \o Utf8(r.asset)
  \o LE(r.bin_id, 4) \o LE(r.offset, 8) \o LE(r.size, 8)

IndexBytes(index) ==
  LE(Len(index), 4) \o Flatten([i \in 1..Len(index) |-> RecordBytes(index[i])])

\* A dict assignment d[key] = value.
Put(d, key, value) ==
  [n \in DOMAIN d \cup {key} |-> IF n = key THEN value ELSE d[n]]

BinName(scene) == IF scene = "shared" THEN "shared.bin"
                  ELSE IF scene = "A" THEN "A.bin" ELSE "B.bin"

\* ---------------------------------------------------------------- actions
Init ==
  /\ pc = "read"
  /\ scenes = <<>>
  /\ scene_assets = <<>>
  /\ usage = <<>>
  /\ total = 0
  /\ shared_assets = <<>>
  /\ scene_only = <<>>
  /\ asset_index = <<>>
  /\ bin_ids = <<>>
  /\ next_bin_id = 0
  /\ out_dir = <<>>
  /\ k = 1
  /\ bins = <<>>
  /\ reported = [assets |-> 0, bins |-> 0]

\* One iteration of the loop over scenes.items(): a descriptor is read and
\* its lines are added to usage.
ReadScene ==
  /\ pc = "read"
  /\ \E scene \in SceneNames \ Range(scenes) :
     \E assets \in Lists(MaxTotal - total) :
        /\ scenes' = Append(scenes, scene)
        /\ scene_assets' = Put(scene_assets, scene, assets)
        /\ usage' = UsageAddAll(usage, assets, scene)
        /\ total' = total + Len(assets)
  /\ UNCHANGED <<pc, shared_assets, scene_only, asset_index, bin_ids,
                 next_bin_id, out_dir, k, bins, reported>>

\* shared_assets and scene_only are computed once every descriptor is read.
Analyze ==
  /\ pc = "read"
  /\ shared_assets' = SharedOf(usage)
  /\ scene_only' = [s \in Range(scenes) |->
                      SceneOnlyOf(scene_assets[s], SharedOf(usage))]
  /\ pc' = "shared"
  /\ UNCHANGED <<scenes, scene_assets, usage, total, asset_index, bin_ids,
                 next_bin_id, out_dir, k, bins, reported>>

\* A bin is packed under bin_name: its id is taken, pack_bin writes the file
\* and its entries are appended to asset_index. bins keeps, per call of
\* pack_bin that returned, its arguments, the id and the entries returned.
PackInto(bin_name, kind, assets) ==
  LET entries == PackEntries(assets)
  IN  /\ bin_ids' = Put(bin_ids, bin_name, next_bin_id)
      /\ next_bin_id' = next_bin_id + 1
      /\ out_dir' = Put(out_dir, bin_name, BinBytes(assets))
      /\ asset_index' = asset_index \o IndexRecords(entries, next_bin_id)
      /\ bins' = Append(bins, [name |-> bin_name, kind |-> kind,
                               id |-> next_bin_id, assets |-> assets,
                               entries |-> entries])

\* pack_bin raises on an asset it cannot open: the id is already taken.
FailInto(bin_name) ==
  /\ bin_ids' = Put(bin_ids, bin_name, next_bin_id)
  /\ next_bin_id' = next_bin_id + 1
  /\ pc' = "aborted"
  /\ UNCHANGED <<asset_index, out_dir, bins, k>>

PackShared ==
  /\ pc = "shared"
  /\ shared_assets # <<>>
  /\ Readable(shared_assets)
  /\ PackInto("shared.bin", "shared", shared_assets)
  /\ pc' = "scenes"
  /\ UNCHANGED <<scenes, scene_assets, usage, total, shared_assets,
                 scene_only, k, reported>>

PackSharedFails ==
  /\ pc = "shared"
  /\ shared_assets # <<>>
  /\ ~Readable(shared_assets)
  /\ FailInto("shared.bin")
  /\ UNCHANGED <<scenes, scene_assets, usage, total, shared_assets,
                 scene_only, reported>>

SkipShared ==
  /\ pc = "shared"
  /\ shared_assets = <<>>
  /\ pc' = "scenes"
  /\ UNCHANGED <<scenes, scene_assets, usage, total, shared_assets, scene_only,
                 asset_index, bin_ids, next_bin_id, out_dir, k, bins, reported>>

PackScene ==
  /\ pc = "scenes"
  /\ k <= Len(scenes)
  /\ scene_only[scenes[k]] # <<>>
  /\ Readable(scene_only[scenes[k]])
  /\ PackInto(BinName(scenes[k]), "scene", scene_only[scenes[k]])
  /\ k' = k + 1
  /\ UNCHANGED <<pc, scenes, scene_assets, usage, total, shared_assets,
                 scene_only, reported>>

PackSceneFails ==
  /\ pc = "scenes"
  /\ k <= Len(scenes)
  /\ scene_only[scenes[k]] # <<>>
  /\ ~Readable(scene_only[scenes[k]])
  /\ FailInto(BinName(scenes[k]))
  /\ UNCHANGED <<scenes, scene_assets, usage, total, shared_assets,
                 scene_only, reported>>

\* A skip that takes a bin id all the same.
SkipSceneTakesId ==
  /\ pc = "scenes"
  /\ k <= Len(scenes)
  /\ scene_only[scenes[k]] = <<>>
  /\ k' = k + 1
  /\ next_bin_id' = next_bin_id + 1
  /\ UNCHANGED <<pc, scenes, scene_assets, usage, total, shared_assets,
                 scene_only, asset_index, bin_ids, out_dir, bins, reported>>

\* if not assets: continue
SkipScene ==
  /\ pc = "scenes"
  /\ k <= Len(scenes)
  /\ scene_only[scenes[k]] = <<>>
  /\ k' = k + 1
  /\ UNCHANGED <<pc, scenes, scene_assets, usage, total, shared_assets,
                 scene_only, asset_index, bin_ids, next_bin_id, out_dir, bins,
                 reported>>

\* The index is written and the summary printed.
WriteIndex ==
  /\ pc = "scenes"
  /\ k > Len(scenes)
  /\ out_dir' = Put(out_dir, "assets.idx", IndexBytes(asset_index))
  /\ reported' = [assets |-> Len(asset_index),
                  bins |-> Cardinality(DOMAIN bin_ids)]
  /\ pc' = "done"
  /\ UNCHANGED <<scenes, scene_assets, usage, total, shared_assets, scene_only,
                 asset_index, bin_ids, next_bin_id, k, bins>>

Next ==
  \/ ReadScene
  \/ Analyze
  \/ PackShared
  \/ PackSharedFails
  \/ SkipShared
  \/ PackScene
  \/ PackSceneFails
  \/ SkipScene
  \/ WriteIndex

Spec == Init /\ [][Next]_vars

\* ------------------------------------------------- reading a bin file back
\* The value of little-endian bytes.
RECURSIVE FromLE(_)
FromLE(bytes) == IF bytes = <<>> THEN 0 ELSE Head(bytes) + 256 * FromLE(Tail(bytes))

\* f.seek(pos); f.read(n): the bytes there are, at most n.
ReadAt(file, pos, n) ==
  [i \in 1..Min(n, Max(0, Len(file) - pos)) |-> file[pos + i]]

\* The entry table as written by pack_bin, read from position pos:
\* name length, name, offset, size per entry; end is where the table ends.
RECURSIVE ParseEntries(_, _, _)
ParseEntries(file, pos, n) ==
  IF n = 0 THEN [entries |-> <<>>, end |-> pos]
  ELSE LET len  == FromLE(ReadAt(file, pos, 4))
           rest == ParseEntries(file, pos + 4 + len + 8 + 8, n - 1)
       IN  [entries |->
              <<[name   |-> ReadAt(file, pos + 4, len),
                 offset |-> FromLE(ReadAt(file, pos + 4 + len, 8)),
                 size   |-> FromLE(ReadAt(file, pos + 4 + len + 8, 8))]>>
              \o rest.entries,
            end |-> rest.end]

\* A bin file read back: the entry count of the header, the entries and the
\* position where the data segment starts.
ParseBin(file) ==
  LET t == ParseEntries(file, 12, FromLE(ReadAt(file, 8, 4)))
  IN  [magic |-> ReadAt(file, 0, 4), version |-> FromLE(ReadAt(file, 4, 4)),
       count |-> FromLE(ReadAt(file, 8, 4)),
       entries |-> t.entries, data_start |-> t.end]

\* The logical path an entry name decodes to.
PathOfName(name) == CHOOSE p \in Paths : Utf8(p) = name

BinFiles == DOMAIN out_dir \ {"assets.idx"}

\* --------------------------------------------------- what the claims speak of
\* The scenes that list path p (a scene listing it twice is in the set once).
UsedBy(p) == {s \in Range(scenes) : p \in Range(scene_assets[s])}

Listed == UNION {Range(scene_assets[s]) : s \in Range(scenes)}

SharedPaths == {p \in Listed : Cardinality(UsedBy(p)) >= 2}

IsExclusive(p) == Cardinality(UsedBy(p)) < 2

\* A scene's list without the shared paths, order kept.
Exclusive(s) == SelectSeq(scene_assets[s], IsExclusive)

\* The places <<b, i>> of the entries, over all bins packed, that hold path.
EntriesOf(path) ==
  {c \in (1..Len(bins)) \X (1..MaxTotal) :
     /\ c[2] <= Len(bins[c[1]].entries)
     /\ bins[c[1]].entries[c[2]].asset = path}

RecordsOf(path) == {i \in 1..Len(asset_index) : asset_index[i].asset = path}

\* The bins, in order, a run is to produce: the shared bin when some path is
\* shared, then one per scene, in scene order, with a non-empty exclusive list.
ExpectedBins ==
  (IF SharedPaths # {} THEN <<[kind |-> "shared", name |-> "shared.bin"]>>
   ELSE <<>>)
  \o Flatten([i \in 1..Len(scenes) |->
       IF Exclusive(scenes[i]) # <<>>
       THEN <<[kind |-> "scene", name |-> BinName(scenes[i])]>>
       ELSE <<>>])

SizesOf(assets) == [i \in 1..Len(assets) |-> Len(FileData(LogicalPath(assets[i])))]

NameLensOf(assets) == [i \in 1..Len(assets) |-> Len(Utf8(LogicalPath(assets[i])))]

\* bins[b] is the last bin written under its name: its file is in out_dir.
LastWrite(b) == \A c \in (b + 1)..Len(bins) : bins[c].name # bins[b].name

\* ------------------------------------------------------------------ claims
\* C1: after a complete run every distinct asset path listed by any scene
\* appears in exactly one bin entry across all bins packed (never twice,
\* never dropped).
C1_EachPathInOneEntry ==
  pc = "done" =>
    \A p \in Listed : Cardinality(EntriesOf(LogicalPath(p))) = 1

\* C2: a path is in the list packed into the shared bin iff two or more
\* distinct scenes list it (a repeat inside one scene is one use); a path of
\* exactly one scene is never handed to the shared bin and a path of two or
\* more scenes never to a scene bin.
C2_SharedIffTwoScenes ==
  LET sharedPaths == SharedPaths
  IN  /\ pc # "read" =>
           /\ Range(shared_assets) = sharedPaths
           /\ \A s \in Range(scenes) : Range(scene_only[s]) \cap sharedPaths = {}
      /\ \A b \in 1..Len(bins) :
           /\ bins[b].kind = "shared" =>
                \A p \in Range(bins[b].assets) : Cardinality(UsedBy(p)) >= 2
           /\ bins[b].kind = "scene" =>
                \A p \in Range(bins[b].assets) : Cardinality(UsedBy(p)) = 1
      /\ pc = "done" =>
           \A p \in Listed :
             (\E b \in 1..Len(bins) :
                bins[b].kind = "shared" /\ p \in Range(bins[b].assets))
             <=> p \in sharedPaths

\* C2's case: a finished run in which one scene repeats a path no other scene
\* lists, another path is listed by two scenes, and both kinds of bin exist.
C2_Witness ==
  /\ pc = "done"
  /\ \E s \in Range(scenes) : \E i, j \in 1..Len(scene_assets[s]) :
       /\ i < j
       /\ scene_assets[s][i] = scene_assets[s][j]
       /\ UsedBy(scene_assets[s][i]) = {s}
  /\ SharedPaths # {}
  /\ \E b, c \in 1..Len(bins) : bins[b].kind = "shared" /\ bins[c].kind = "scene"

\* C3 as stated: the offset recorded for each entry of every bin written is
\* relative to the data segment, the total size of the entries before it, so
\* the first entry of a non-empty bin has offset 0.
C3_OffsetsDataRelative ==
  \A f \in BinFiles :
    LET bin == ParseBin(out_dir[f])
    IN  \A i \in 1..Len(bin.entries) :
          bin.entries[i].offset =
            SumSeq([j \in 1..(i - 1) |-> bin.entries[j].size])

\* The bin files a step writes: new in out_dir or with new bytes.
BinsWritten ==
  {f \in DOMAIN out_dir' \ {"assets.idx"} :
     f \notin DOMAIN out_dir \/ out_dir[f] # out_dir'[f]}

\* The offsets in a bin file count from the start of the file.
FileOffsetsAbsolute(file) ==
  LET bin == ParseBin(file)
  IN  \A i \in 1..Len(bin.entries) :
        bin.entries[i].offset =
          12
          + SumSeq([j \in 1..Len(bin.entries) |-> 20 + Len(bin.entries[j].name)])
          + SumSeq([j \in 1..(i - 1) |-> bin.entries[j].size])

\* The offsets of the entries pack_bin returned count from the start of the
\* file it wrote.
EntryOffsetsAbsolute(b) ==
  LET lens  == NameLensOf(b.assets)
      sizes == SizesOf(b.assets)
  IN  \A i \in 1..Len(b.entries) :
        b.entries[i].offset =
          12 + SumSeq([j \in 1..Len(lens) |-> 20 + lens[j]])
             + SumSeq([j \in 1..(i - 1) |-> sizes[j]])

\* C3 as amended: the offset recorded for each entry of every bin written, in
\* the file and in the entries returned, is an offset in the file: the header
\* size (12) plus the size of the entry table (20 + name length per entry)
\* plus the total size of the entries before it.
C3_OffsetsFileAbsolute ==
  [][/\ \A f \in BinsWritten : FileOffsetsAbsolute(out_dir'[f])
     /\ Len(bins') > Len(bins) => EntryOffsetsAbsolute(bins'[Len(bins')])]_vars

\* C3's case: a bin file with two entries or more, the second after a
\* non-empty first.
C3_Witness ==
  \E f \in BinFiles :
    LET bin == ParseBin(out_dir[f])
    IN  /\ bin.count >= 2
        /\ Len(bin.entries) = bin.count
        /\ bin.entries[1].size > 0
        /\ bin.entries[2].offset > bin.entries[1].offset

\* C4 as stated: a reader that skips the header and the entry table and reads
\* size bytes at entry.offset inside the data segment gets the bytes of the
\* entry's asset, for every entry of every bin; the data segment is the
\* concatenation of the asset bytes in entry order.
C4_RoundTripInDataSegment ==
  \A f \in BinFiles :
    LET bin == ParseBin(out_dir[f])
    IN  /\ \A i \in 1..Len(bin.entries) :
             ReadAt(out_dir[f], bin.data_start + bin.entries[i].offset,
                    bin.entries[i].size)
             = FileData(PathOfName(bin.entries[i].name))
        /\ ReadAt(out_dir[f], bin.data_start, Len(out_dir[f]))
           = Flatten([i \in 1..Len(bin.entries) |->
                        FileData(PathOfName(bin.entries[i].name))])

\* Every entry of a bin file is read back at its offset in the file, and the
\* data segment is the assets' bytes in entry order.
FileRoundTrip(file) ==
  LET bin == ParseBin(file)
  IN  /\ bin.magic = <<65, 83, 80, 75>>
      /\ \A i \in 1..Len(bin.entries) :
           /\ bin.entries[i].name \in {Utf8(p) : p \in AssetFiles}
           /\ ReadAt(file, bin.entries[i].offset, bin.entries[i].size)
              = FileData(PathOfName(bin.entries[i].name))
      /\ ReadAt(file, bin.data_start, Len(file))
         = Flatten([i \in 1..Len(bin.entries) |->
                      FileData(PathOfName(bin.entries[i].name))])

\* C4 as amended: a reader that reads size bytes at entry.offset counted from
\* the start of the file gets the bytes of the entry's asset, for every entry
\* of every bin written; the data segment, which follows the entry table, is
\* the concatenation of the asset bytes in entry order.
C4_RoundTripInFile ==
  [][\A f \in BinsWritten : FileRoundTrip(out_dir'[f])]_vars

\* C4's case: a bin file holding two different assets, the second read back.
C4_Witness ==
  \E f \in BinFiles :
    LET bin == ParseBin(out_dir[f])
    IN  /\ bin.count = 2
        /\ bin.entries[1].name # bin.entries[2].name
        /\ ReadAt(out_dir[f], bin.entries[2].offset, bin.entries[2].size)
           = FileData(PathOfName(bin.entries[2].name))

\* C9 as stated: a bin with N entries whose assets total S bytes is
\* 12 + 24*N + S bytes long with the data segment starting at byte 12 + 24*N,
\* and an index with M records is 4 + 28*M bytes long, whatever the lengths of
\* the path strings.
C9_FixedSizeRecords ==
  /\ \A b \in 1..Len(bins) :
       LastWrite(b) =>
         LET N == Len(bins[b].assets)
             S == SumSeq(SizesOf(bins[b].assets))
         IN  /\ Len(out_dir[bins[b].name]) = 12 + 24 * N + S
             /\ ParseBin(out_dir[bins[b].name]).data_start = 12 + 24 * N
  /\ pc = "done" => Len(out_dir["assets.idx"]) = 4 + 28 * Len(asset_index)

\* The file written for the bin b has name-sized entries.
BinFileSized(b, file) ==
  LET N == Len(b.assets)
      S == SumSeq(SizesOf(b.assets))
      L == SumSeq(NameLensOf(b.assets))
  IN  /\ Len(file) = 12 + 20 * N + L + S
      /\ ReadAt(file, 12 + 20 * N + L, S + 1)
         = Flatten([i \in 1..N |-> FileData(LogicalPath(b.assets[i]))])
      /\ FromLE(ReadAt(file, 8, 4)) = N

\* The index file written for the records has name-sized records.
IndexFileSized(index, file) ==
  /\ Len(file) = 4 + 24 * Len(index)
                  + SumSeq([i \in 1..Len(index) |-> Len(Utf8(index[i].asset))])
  /\ FromLE(ReadAt(file, 0, 4)) = Len(index)

\* C9 as amended: the records carry the path string, so their size varies
\* with it: a bin written with N entries whose assets total S bytes is
\* 12 + 20*N + (the total byte length of the N entry names) + S bytes long,
\* the data segment starting at byte 12 + 20*N + (total name length); an
\* index written with M records is 4 + 24*M + (the total byte length of the M
\* paths) bytes long.
C9_NameSizedRecords ==
  [][/\ Len(bins') > Len(bins) =>
          BinFileSized(bins'[Len(bins')], out_dir'[bins'[Len(bins')].name])
     /\ (pc' = "done" /\ pc # "done") =>
          IndexFileSized(asset_index', out_dir'["assets.idx"])]_vars

\* C9's case: a finished run with a bin of two entries whose names differ in
\* length, and an index of two records or more.
C9_Witness ==
  /\ pc = "done"
  /\ Len(asset_index) >= 2
  /\ \E b \in 1..Len(bins) :
       /\ LastWrite(b)
       /\ Len(bins[b].entries) = 2
       /\ Len(bins[b].entries[1].name) # Len(bins[b].entries[2].name)

\* C5: after a complete run, every asset present in any bin has exactly one
\* index record, whose bin id is the id of the bin holding the entry and whose
\* (offset, size) are those of the entry.
C5_OneRecordPerAsset ==
  pc = "done" =>
    \A b \in 1..Len(bins) : \A i \in 1..Len(bins[b].entries) :
      LET e == bins[b].entries[i]
      IN  /\ Cardinality(RecordsOf(e.asset)) = 1
          /\ \A r \in RecordsOf(e.asset) :
               /\ asset_index[r].bin_id = bins[b].id
               /\ asset_index[r].offset = e.offset
               /\ asset_index[r].size = e.size

\* C6: bin ids are dense, zero-based and assigned in write order: the bins
\* packed so far are the first of the expected bins (the shared bin exactly
\* when some path is shared, then the scenes with a non-empty exclusive list
\* in scene order), the i-th of them has id i - 1, and a scene without
\* exclusive paths takes no id.
C6_DenseBinIds ==
  pc \in {"scenes", "done"} =>
    LET expected == ExpectedBins
    IN  /\ Len(bins) <= Len(expected)
        /\ \A i \in 1..Len(bins) :
             /\ bins[i].id = i - 1
             /\ bins[i].kind = expected[i].kind
             /\ bins[i].name = expected[i].name
             /\ \A j \in 1..Len(bins[i].entries) :
                  \E r \in 1..Len(asset_index) :
                    /\ asset_index[r].bin_id = i - 1
                    /\ asset_index[r].asset = bins[i].entries[j].asset
        /\ next_bin_id = Len(bins)
        /\ pc = "done" => Len(bins) = Len(expected)
        /\ \A r \in 1..Len(asset_index) : asset_index[r].bin_id < Len(bins)

\* C6's case: a finished run without shared paths in which a scene without
\* assets of its own comes before a scene that gets a bin, which has id 0.
C6_Witness ==
  /\ pc = "done"
  /\ SharedPaths = {}
  /\ Len(scenes) >= 2
  /\ scene_only[scenes[1]] = <<>>
  /\ Len(bins) >= 1
  /\ bins[1].kind = "scene"
  /\ bins[1].id = 0
  /\ bins[1].name = BinName(scenes[2])

\* C7: when reading an asset fails while a bin is packed, no bin file and no
\* index file of the run is left in the output directory.
C7_AbortLeavesNoOutput ==
  pc = "aborted" => DOMAIN out_dir = {}

\* The index records expected from the scenes: each scene's exclusive list
\* in scene order, as logical paths.
ExpectedSceneRecords ==
  Flatten([i \in 1..Len(scenes) |->
     [j \in 1..Len(Exclusive(scenes[i])) |->
        LogicalPath(Exclusive(scenes[i])[j])]])

\* C8: the index records are in accumulation order: the shared bin's records
\* first, then each scene's records in scene order (bin ids never decrease
\* along the index), and the records of a scene follow the scene's own list
\* with the shared paths taken out, order kept.
C8_IndexInAccumulationOrder ==
  pc = "done" =>
    LET sharedPaths == SharedPaths
        n0 == Cardinality(sharedPaths)
        expected == ExpectedSceneRecords
    IN  /\ Len(asset_index) = n0 + Len(expected)
        /\ \A i \in 1..Len(asset_index) :
             i <= n0 =>
               /\ asset_index[i].bin_id = 0
               /\ \E p \in sharedPaths : asset_index[i].asset = LogicalPath(p)
        /\ \A p \in sharedPaths : \E i \in 1..n0 :
             asset_index[i].asset = LogicalPath(p)
        /\ \A i \in 1..Len(expected) :
             /\ asset_index[n0 + i].asset = expected[i]
             /\ asset_index[n0 + i].bin_id >= (IF n0 > 0 THEN 1 ELSE 0)
        /\ \A i, j \in 1..Len(asset_index) :
             i < j => asset_index[i].bin_id <= asset_index[j].bin_id
        /\ out_dir["assets.idx"] = IndexBytes(asset_index)

\* C8's case: a finished run with a shared path listed between two exclusive
\* paths of one scene, and records of the shared bin and of a scene bin.
C8_Witness ==
  /\ pc = "done"
  /\ \E s \in Range(scenes) :
       /\ Len(scene_assets[s]) = 3
       /\ scene_assets[s][2] \in SharedPaths
       /\ Len(Exclusive(s)) = 2
       /\ LogicalPath(scene_assets[s][1]) # LogicalPath(scene_assets[s][3])
  /\ Len(asset_index) = 3
  /\ asset_index[1].bin_id = 0
  /\ asset_index[3].bin_id = 1

\* C10: in a run every bin id assigned names an output file of its own: no
\* bin write overwrites a bin written before it in the run, and the bin count
\* reported is the number of ids assigned.
C10_DistinctBinFiles ==
  /\ \A b, c \in 1..Len(bins) : b < c => bins[b].name # bins[c].name
  /\ pc = "done" =>
       /\ Cardinality(BinFiles) = next_bin_id
       /\ reported.bins = next_bin_id

====
